---- MODULE Spec2Model ----
(***************************************************************************)
(* MiniBase: the generic data-access engine (src/lib/db.ts), the           *)
(* credential and session service (src/lib/auth.ts) and the route          *)
(* handlers that gate every data operation behind a bearer token.          *)
(*                                                                         *)
(* Time is counted in hours.  Rows carry their non-id columns; the         *)
(* created_at / updated_at columns (engine defaults, never read by the     *)
(* engine code) are left out of the rows.                                  *)
(***************************************************************************)
EXTENDS Integers, Sequences, FiniteSets, TLC

VARIABLES
    db,      \* the SQLite file: existing tables, their schema, rows and sequence
    now,     \* the server clock, in hours
    held,    \* the token the client holds (the one its last sign-in returned)
    last,    \* the last operation, its arguments and its outcome
    client,  \* the client library: the request it has in flight, its last result
    builder, \* the query builder the client holds
    calls    \* the engine calls the server processes are in the middle of

vars == <<db, now, held, last, client, builder, calls>>

\* what the route handlers and the service operations never touch
aside == <<client, builder, calls>>

----------------------------------------------------------------------------
(* Bounds of the model *)

MaxId == 2        \* largest row id the engine hands out
MaxTime == 26     \* the clock stops here
TickStep == 24    \* hours between two requests in the coarse-clock runs
MaxCount == 1     \* largest number handed to limit() and offset()

----------------------------------------------------------------------------
(* Values *)

NULL == "NULL"             \* SQL NULL / a JS undefined field
NoTable == "<no table>"    \* a name the engine resolves to nothing
NoLog == "<none>"          \* nothing written to console.error
NoError == "<none>"        \* a response without an error field

Usernames == {"admin", "bob"}
Passwords == {"admin123", "pw"}

\* bcrypt.hashSync: one-way; the salt is abstracted away
HashSync(password) == IF password = "admin123" THEN "$2a$10$admin123" ELSE "$2a$10$pw"

\* bcrypt.compareSync
CompareSync(password, hash) == hash = HashSync(password)

----------------------------------------------------------------------------
(* The storage engine: schemas, name resolution, statements *)

AdminUsersSchema ==
    [cols |-> {"id", "username", "password_hash"},
     notnull |-> {"username", "password_hash"},
     unique |-> {"username"},
     autoinc |-> TRUE]

AppUsersSchema ==
    [cols |-> {"id", "email", "username", "password_hash"},
     notnull |-> {"email", "username", "password_hash"},
     unique |-> {"email", "username"},
     autoinc |-> TRUE]

\* the one shape of table the create-table requests of the model declare:
\* notes (id INTEGER PRIMARY KEY, body TEXT)
NotesSchema ==
    [cols |-> {"id", "body"}, notnull |-> {}, unique |-> {}, autoinc |-> FALSE]

EmptyRows == [i \in {} |-> NULL]

EmptyTable(schema) == [schema |-> schema, rows |-> EmptyRows, seq |-> 0]

\* The spellings of table names requests use.  SQLite matches identifiers
\* without regard to letter case.
TableNames == {"admin_users", "ADMIN_USERS", "app_users", "notes"}

\* names written as SQLite quoted identifiers: the engine strips the quotes
QuotedAdminUsers == "\"admin_users\""
QuotedUsername == "\"username\""
QuotedColumn == "\"my col\""

FoldCase(name) ==
    CASE name = "ADMIN_USERS" -> "admin_users"
      [] name = QuotedAdminUsers -> "admin_users"
      [] name = "APP_USERS" -> "app_users"
      [] name = "NOTES" -> "notes"
      [] OTHER -> name

\* the column the engine resolves an interpolated column name to
FoldColumn(name) ==
    CASE name = "ID" -> "id"
      [] name = QuotedUsername -> "username"
      [] name = QuotedColumn -> "my col"
      [] OTHER -> name

\* the bound values of a statement, by the column each name resolves to
Resolved(data) ==
    [c \in {FoldColumn(k) : k \in DOMAIN data} |->
        data[CHOOSE k \in DOMAIN data : FoldColumn(k) = c]]

\* the table of d that the engine resolves an interpolated name to
TableOf(d, name) == IF FoldCase(name) \in DOMAIN d THEN FoldCase(name) ELSE NoTable

Max(S) == IF S = {} THEN 0 ELSE CHOOSE x \in S : \A y \in S : y <= x

\* the rowid SQLite assigns to a row inserted without one
NextRowId(tbl) ==
    IF tbl.schema.autoinc
    THEN Max(DOMAIN tbl.rows \cup {tbl.seq}) + 1
    ELSE Max(DOMAIN tbl.rows) + 1

\* the non-id columns of a row built from the bound values
FieldsOf(schema, data) ==
    [c \in schema.cols \ {"id"} |-> IF c \in DOMAIN data THEN data[c] ELSE NULL]

ViolatesConstraint(tbl, id, fields) ==
    \/ \E c \in tbl.schema.notnull : fields[c] = NULL
    \/ \E c \in tbl.schema.unique : \E r \in DOMAIN tbl.rows :
          r # id /\ fields[c] # NULL /\ tbl.rows[r][c] = fields[c]

Row(id, fields) == [id |-> id, fields |-> fields]
NoRow == [id |-> 0, fields |-> EmptyRows]

Put(f, k, v) == [x \in DOMAIN f \cup {k} |-> IF x = k THEN v ELSE f[x]]
Drop(f, k) == [x \in DOMAIN f \ {k} |-> f[x]]

\* what a statement of the engine layer gives back: the database after it,
\* whether it threw, the row it returned, the statements that ran
Outcome(d, threw, row, log, stmts) ==
    [db |-> d, threw |-> threw, row |-> row, log |-> log, stmts |-> stmts]

SqliteError == "SqliteError"

\* PRAGMA table_info(name): the schema, or null for a name that resolves to
\* no table
GetTableSchema(d, tableName) ==
    IF TableOf(d, tableName) = NoTable THEN NoTable ELSE TableOf(d, tableName)

\* INSERT INTO name (cols) VALUES (?, ...) RETURNING *
InsertIntoTable(d, tableName, data) ==
    LET t == TableOf(d, tableName)
        bound == Resolved(data)
        cols == DOMAIN bound
    IN  IF t = NoTable \/ cols = {} \/ ~(cols \subseteq d[t].schema.cols)
        THEN Outcome(d, TRUE, NoRow, SqliteError, {"INSERT"})
        ELSE
          LET tbl == d[t]
              id == IF "id" \in cols THEN bound["id"] ELSE NextRowId(tbl)
              fields == FieldsOf(tbl.schema, bound)
          IN  IF id \in DOMAIN tbl.rows \/ ViolatesConstraint(tbl, id, fields)
              THEN Outcome(d, TRUE, NoRow, SqliteError, {"INSERT"})
              ELSE Outcome(
                     [d EXCEPT ![t] = [tbl EXCEPT
                         !.rows = Put(tbl.rows, id, fields),
                         !.seq = IF tbl.schema.autoinc /\ id > tbl.seq
                                 THEN id ELSE tbl.seq]],
                     FALSE, Row(id, fields), NoLog, {"INSERT"})

\* UPDATE name SET col = ?, ... WHERE id = ? RETURNING *
UpdateInTable(d, tableName, id, data) ==
    LET t == TableOf(d, tableName)
        bound == Resolved(data)
        cols == DOMAIN bound
    IN  IF t = NoTable \/ cols = {} \/ ~(cols \subseteq d[t].schema.cols)
        THEN Outcome(d, TRUE, NoRow, SqliteError, {"UPDATE"})
        ELSE
          LET tbl == d[t]
          IN  IF id \notin DOMAIN tbl.rows
              THEN Outcome(d, FALSE, NoRow, NoLog, {"UPDATE"})
              ELSE
                LET newId == IF "id" \in cols THEN bound["id"] ELSE id
                    fields == [c \in tbl.schema.cols \ {"id"} |->
                                 IF c \in cols THEN bound[c] ELSE tbl.rows[id][c]]
                    others == [tbl EXCEPT !.rows = Drop(tbl.rows, id)]
                IN  IF newId \in DOMAIN others.rows
                       \/ ViolatesConstraint(others, newId, fields)
                    THEN Outcome(d, TRUE, NoRow, SqliteError, {"UPDATE"})
                    ELSE Outcome(
                           [d EXCEPT ![t] = [tbl EXCEPT
                               !.rows = Put(others.rows, newId, fields)]],
                           FALSE, Row(newId, fields), NoLog, {"UPDATE"})

\* whether a SELECT on admin_users naming its username column prepares
AdminUsersReadable(d) ==
    /\ "admin_users" \in DOMAIN d
    /\ {"username", "password_hash"} \subseteq d["admin_users"].schema.cols

MainAdminError == "Cannot delete the main admin account"
LastAdminError == "Cannot delete the last remaining admin user"

\* what deleteFromTable gives back: the database after it, its boolean
\* result, the error it logged and the statements that ran
Deleted(d, result, log, stmts) ==
    [db |-> d, result |-> result, log |-> log, stmts |-> stmts]

\* a DELETE that reports a change whether or not a row had the id
DeleteStatementAlways(d, tableName, id, stmts) ==
    LET t == TableOf(d, tableName)
    IN  IF t = NoTable
        THEN Deleted(d, FALSE, SqliteError, stmts \cup {"DELETE"})
        ELSE Deleted([d EXCEPT ![t].rows = Drop(d[t].rows, id)],
                     TRUE, NoLog, stmts \cup {"DELETE"})

\* DELETE FROM name WHERE id = ?, inside deleteFromTable's try block
DeleteStatement(d, tableName, id, stmts) ==
    LET t == TableOf(d, tableName)
    IN  IF t = NoTable
        THEN Deleted(d, FALSE, SqliteError, stmts \cup {"DELETE"})
        ELSE IF id \in DOMAIN d[t].rows
             THEN Deleted([d EXCEPT ![t].rows = Drop(d[t].rows, id)],
                          TRUE, NoLog, stmts \cup {"DELETE"})
             ELSE Deleted(d, FALSE, NoLog, stmts \cup {"DELETE"})

\* deleteFromTable with the two guards in the other order: the row count is
\* read before the username
DeleteFromTableCountFirst(d, tableName, id) ==
    IF tableName = "admin_users"
    THEN IF ~AdminUsersReadable(d)
         THEN Deleted(d, FALSE, SqliteError, {"SELECT"})
         ELSE IF id \in DOMAIN d["admin_users"].rows
              THEN IF Cardinality(DOMAIN d["admin_users"].rows) <= 1
                   THEN Deleted(d, FALSE, LastAdminError, {"SELECT", "COUNT"})
                   ELSE IF d["admin_users"].rows[id]["username"] = "admin"
                        THEN Deleted(d, FALSE, MainAdminError, {"SELECT", "COUNT"})
                        ELSE DeleteStatement(d, tableName, id, {"SELECT", "COUNT"})
              ELSE DeleteStatement(d, tableName, id, {"SELECT"})
    ELSE DeleteStatement(d, tableName, id, {})

\* deleteFromTable running its DELETE before the guard looks at the accounts
DeleteFromTableDeleteFirst(d, tableName, id) ==
    IF tableName = "admin_users"
    THEN IF ~AdminUsersReadable(d)
         THEN Deleted(d, FALSE, SqliteError, {"SELECT"})
         ELSE IF id \in DOMAIN d["admin_users"].rows
              THEN LET r == DeleteStatement(d, tableName, id, {"SELECT", "COUNT"})
                   IN  IF d["admin_users"].rows[id]["username"] = "admin"
                       THEN Deleted(r.db, FALSE, MainAdminError, r.stmts)
                       ELSE IF Cardinality(DOMAIN d["admin_users"].rows) <= 1
                            THEN Deleted(r.db, FALSE, LastAdminError, r.stmts)
                            ELSE r
              ELSE DeleteStatement(d, tableName, id, {"SELECT"})
    ELSE DeleteStatement(d, tableName, id, {})

\* the guard for the main admin and the last admin, then the DELETE; every
\* error is caught, logged and turned into the result false
DeleteFromTable(d, tableName, id) ==
    IF tableName = "admin_users"
    THEN IF ~AdminUsersReadable(d)
         THEN Deleted(d, FALSE, SqliteError, {"SELECT"})
         ELSE IF id \in DOMAIN d["admin_users"].rows
              THEN IF d["admin_users"].rows[id]["username"] = "admin"
                   THEN Deleted(d, FALSE, MainAdminError, {"SELECT"})
                   ELSE IF Cardinality(DOMAIN d["admin_users"].rows) <= 1
                        THEN Deleted(d, FALSE, LastAdminError, {"SELECT", "COUNT"})
                        ELSE DeleteStatement(d, tableName, id, {"SELECT", "COUNT"})
              ELSE DeleteStatement(d, tableName, id, {"SELECT"})
    ELSE DeleteStatement(d, tableName, id, {})

\* CREATE TABLE name (definitions), through db.exec
CreateTable(d, tableName, schema) ==
    IF TableOf(d, tableName) # NoTable \/ schema.cols = {}
    THEN [db |-> d, result |-> FALSE, stmts |-> {"CREATE"}]
    ELSE [db |-> Put(d, tableName, EmptyTable(schema)),
          result |-> TRUE, stmts |-> {"CREATE"}]

\* DROP TABLE IF EXISTS name
DropTable(d, tableName) ==
    [db |-> IF TableOf(d, tableName) = NoTable THEN d
            ELSE Drop(d, TableOf(d, tableName)),
     result |-> TRUE, stmts |-> {"DROP"}]

\* SELECT * FROM admin_users WHERE username = ?
GetAdminUser(d, username) ==
    IF AdminUsersReadable(d)
       /\ \E i \in DOMAIN d["admin_users"].rows :
             d["admin_users"].rows[i]["username"] = username
    THEN LET i == CHOOSE i \in DOMAIN d["admin_users"].rows :
                     d["admin_users"].rows[i]["username"] = username
         IN  Row(i, d["admin_users"].rows[i])
    ELSE NoRow

\* the rows of admin_users in d
AdminRowsOf(d) == IF "admin_users" \in DOMAIN d THEN d["admin_users"].rows ELSE EmptyRows

\* the database a fresh process builds: both reserved tables, and the main
\* admin inserted by ensureMainAdminExists
InitialDb ==
    InsertIntoTable(
        [t \in {"admin_users", "app_users"} |->
            IF t = "admin_users" THEN EmptyTable(AdminUsersSchema)
            ELSE EmptyTable(AppUsersSchema)],
        "admin_users",
        [username |-> "admin", password_hash |-> HashSync("admin123")]).db

----------------------------------------------------------------------------
(* The credential and session service *)

\* process.env.JWT_SECRET of the deployment modelled: not set
EnvJwtSecret == NULL

\* process.env.JWT_SECRET || 'minibase-secret-key-change-in-production'
JWT_SECRET ==
    IF EnvJwtSecret # NULL THEN EnvJwtSecret
    ELSE "minibase-secret-key-change-in-production"

\* expiresIn: '24h'
ExpiresIn == 24

\* A token: a JWT (its payload, and the key under which its signature
\* verifies), a string that is no JWT, or no token at all.
Token(kind, id, username, iat, exp, key) ==
    [kind |-> kind, id |-> id, username |-> username, iat |-> iat, exp |-> exp,
     key |-> key]

NoToken == Token("none", 0, NULL, 0, 0, NULL)
GarbageToken == Token("garbage", 0, NULL, 0, 0, NULL)

\* jwt.sign(payload, secret, {expiresIn}) at the current time
JwtSign(id, username, secret) ==
    Token("jwt", id, username, now, now + ExpiresIn, secret)

\* the payload changed after signing: the signature verifies under no key
Tampered(token) == [token EXCEPT !.username = "admin", !.key = "<no key>"]

\* the decoded session, or null
Session(id, username, iat, exp) ==
    [id |-> id, username |-> username, iat |-> iat, exp |-> exp]

NoSession == Session(0, NULL, 0, 0)

\* verifyToken accepting a token at the very second it expires
VerifyTokenInclusive(token) ==
    IF token.kind = "jwt" /\ token.key = JWT_SECRET /\ now <= token.exp
    THEN Session(token.id, token.username, token.iat, token.exp)
    ELSE NoSession

\* verifyToken looking the account up: a session store in disguise
VerifyTokenChecksAccount(token) ==
    IF token.kind = "jwt" /\ token.key = JWT_SECRET /\ now < token.exp
       /\ GetAdminUser(db, token.username).id = token.id
    THEN Session(token.id, token.username, token.iat, token.exp)
    ELSE NoSession

\* jwt.verify(token, JWT_SECRET) inside try/catch: a malformed token, a
\* signature that does not verify and an expired token all give null
VerifyToken(token) ==
    IF token.kind = "jwt" /\ token.key = JWT_SECRET /\ now < token.exp
    THEN Session(token.id, token.username, token.iat, token.exp)
    ELSE NoSession

\* An Authorization header: absent, or a prefix and what follows it.
Header(present, prefix, rest) == [present |-> present, prefix |-> prefix, rest |-> rest]

NoHeader == Header(FALSE, "", NoToken)
Bearer(token) == Header(TRUE, "Bearer ", token)
BasicHeader == Header(TRUE, "Basic ", GarbageToken)
BareBearerHeader == Header(TRUE, "Bearer", NoToken)

\* extractTokenFromHeader taking whatever follows any scheme
ExtractTokenAnyScheme(authHeader) ==
    IF ~authHeader.present THEN NoToken ELSE authHeader.rest

\* extractTokenFromHeader: null unless the header starts with 'Bearer ',
\* else the rest of it
ExtractTokenFromHeader(authHeader) ==
    IF ~authHeader.present \/ authHeader.prefix # "Bearer "
    THEN NoToken
    ELSE authHeader.rest

NoTokenError == "No token provided"
InvalidTokenError == "Invalid or expired token"

AuthResult(success, user, error) == [success |-> success, user |-> user, error |-> error]

\* authenticateRequest telling an expired token from a forged one
AuthenticateRequestTellsExpiry(authHeader) ==
    LET token == ExtractTokenFromHeader(authHeader)
    IN  IF token = NoToken
        THEN AuthResult(FALSE, NoSession, NoTokenError)
        ELSE IF VerifyToken(token) = NoSession
             THEN AuthResult(FALSE, NoSession,
                             IF token.kind = "jwt" /\ token.key = JWT_SECRET
                             THEN "Token expired" ELSE InvalidTokenError)
             ELSE AuthResult(TRUE, VerifyToken(token), NoError)

\* authenticateRequest
AuthenticateRequest(authHeader) ==
    LET token == ExtractTokenFromHeader(authHeader)
    IN  IF token = NoToken
        THEN AuthResult(FALSE, NoSession, NoTokenError)
        ELSE IF VerifyToken(token) = NoSession
             THEN AuthResult(FALSE, NoSession, InvalidTokenError)
             ELSE AuthResult(TRUE, VerifyToken(token), NoError)

LoginError == "Invalid username or password"

\* AuthService.login telling an unknown username from a wrong password
LoginResultTellsUnknown(username, password) ==
    LET user == GetAdminUser(db, username)
    IN  IF ~AdminUsersReadable(db)
        THEN [success |-> FALSE, token |-> NoToken, user |-> NoSession,
              error |-> "Internal server error"]
        ELSE IF user = NoRow
        THEN [success |-> FALSE, token |-> NoToken, user |-> NoSession,
              error |-> "Unknown username"]
        ELSE IF ~CompareSync(password, user.fields["password_hash"])
             THEN [success |-> FALSE, token |-> NoToken, user |-> NoSession,
                   error |-> LoginError]
             ELSE [success |-> TRUE,
                   token |-> JwtSign(user.id, user.fields["username"], JWT_SECRET),
                   user |-> Session(user.id, user.fields["username"], 0, 0),
                   error |-> NoError]

\* AuthService.login: the result it returns
LoginResult(username, password) ==
    LET user == GetAdminUser(db, username)
    IN  IF ~AdminUsersReadable(db)
        THEN [success |-> FALSE, token |-> NoToken, user |-> NoSession,
              error |-> "Internal server error"]
        ELSE IF user = NoRow
        THEN [success |-> FALSE, token |-> NoToken, user |-> NoSession,
              error |-> LoginError]
        ELSE IF ~CompareSync(password, user.fields["password_hash"])
             THEN [success |-> FALSE, token |-> NoToken, user |-> NoSession,
                   error |-> LoginError]
             ELSE [success |-> TRUE,
                   token |-> JwtSign(user.id, user.fields["username"], JWT_SECRET),
                   user |-> Session(user.id, user.fields["username"], 0, 0),
                   error |-> NoError]

----------------------------------------------------------------------------
(* Requests *)

\* parseInt(id) of a path segment that is no number
NaN == -1

IdParams == (1 .. MaxId) \cup {NaN}

\* a column definition of a create-table request
ColumnDef(name, type, constraints) ==
    [name |-> name, type |-> type, constraints |-> constraints]

NotesColumns ==
    <<ColumnDef("id", "INTEGER", "PRIMARY KEY"), ColumnDef("body", "TEXT", "")>>

ColumnLists == {NotesColumns, <<>>}

\* the schema the engine derives from the column definitions
SchemaOf(columns) ==
    [cols |-> {FoldColumn(columns[i].name) : i \in DOMAIN columns},
     notnull |-> {FoldColumn(columns[i].name) : i \in {j \in DOMAIN columns :
                                            columns[j].constraints = "NOT NULL"}},
     unique |-> {FoldColumn(columns[i].name) : i \in {j \in DOMAIN columns :
                                           columns[j].constraints = "UNIQUE"}},
     autoinc |-> \E i \in DOMAIN columns :
                    columns[i].constraints = "PRIMARY KEY AUTOINCREMENT"]

\* names a create-table request may carry: a missing name, a name the
\* pattern rejects, and names it accepts
MissingName == ""
BadName == "notes; --"
CreateNames == {MissingName, BadName, "notes", "NOTES"}

\* /^[a-zA-Z_][a-zA-Z0-9_]*$/.test(tableName)
IsIdentifier(name) ==
    name \notin {MissingName, BadName, QuotedAdminUsers, QuotedUsername, QuotedColumn}

\* the JSON bodies of create requests
InsertBodies ==
    { [username |-> "bob", password_hash |-> HashSync("pw")],
      [id |-> 1, username |-> "admin", password_hash |-> HashSync("pw")],
      [body |-> "hello"] }

\* the JSON bodies of update requests
UpdateBodies ==
    { [username |-> "bob"],
      [id |-> 2, username |-> "admin"],
      [body |-> "hello"] }

\* the Authorization headers a request may carry: none, malformed ones, a
\* string that is no JWT, the token the client holds (fresh or expired) and
\* that token tampered with
Headers ==
    {NoHeader, BasicHeader, BareBearerHeader, Bearer(GarbageToken)}
      \cup (IF held = NoToken THEN {} ELSE {Bearer(held), Bearer(Tampered(held))})

\* the headers the data requests of the model carry
DataHeaders ==
    {NoHeader} \cup (IF held = NoToken THEN {} ELSE {Bearer(held), Bearer(Tampered(held))})

\* the parameters a request is tried with: a handler whose gate fails
\* answers before it reads them
Params(h, S) == IF AuthenticateRequest(h).success THEN S ELSE {CHOOSE x \in S : TRUE}

\* a query parameter: one the URL does not carry, or one it carries with
\* the digits of a number
Absent == <<>>
Digits(n) == <<n>>

\* the limit and offset query parameters of the list requests
Pages == {<<Absent, Absent>>, <<Digits(1), Digits(0)>>, <<Digits(1), Digits(1)>>}

\* parseInt(searchParams.get('limit') || '100')
ParseLimit(param) == IF param = Absent THEN 100 ELSE param[1]

\* parseInt(searchParams.get('offset') || '0')
ParseOffset(param) == IF param = Absent THEN 0 ELSE param[1]

\* the pagination object with hasMore true also when the page ends exactly
\* at the last row
PaginationInclusive(limit, offset, total) ==
    [limit |-> limit, offset |-> offset, total |-> total,
     hasMore |-> offset + limit <= total]

\* the pagination object of a list response
Pagination(limit, offset, total) ==
    [limit |-> limit, offset |-> offset, total |-> total,
     hasMore |-> offset + limit < total]

\* a response without a pagination object
NoPage == [limit |-> 0, offset |-> 0, total |-> 0, hasMore |-> FALSE]

\* const { id, ...rest } = data
WithoutId(data) == [c \in DOMAIN data \ {"id"} |-> data[c]]

RECURSIVE RowsFrom(_, _)
\* the rows of a table with rowid >= from, in rowid order
RowsFrom(rows, from) ==
    IF \A i \in DOMAIN rows : i < from
    THEN <<>>
    ELSE LET i == CHOOSE i \in DOMAIN rows :
                     i >= from /\ \A j \in DOMAIN rows : j >= from => i <= j
         IN  <<Row(i, rows[i])>> \o RowsFrom(rows, i + 1)

\* SELECT * FROM name LIMIT ? OFFSET ?
GetAllFromTable(d, tableName, limit, offset) ==
    LET all == RowsFrom(d[TableOf(d, tableName)].rows, 0)
    IN  SubSeq(all, offset + 1, IF offset + limit < Len(all) THEN offset + limit
                                ELSE Len(all))

\* SELECT COUNT(*) FROM name
GetTableRowCount(d, tableName) ==
    Cardinality(DOMAIN d[TableOf(d, tableName)].rows)

\* the record of an operation and its outcome
Resp(op, header, table, id, status, error, log, stmts, user, data) ==
    [op |-> op, header |-> header, table |-> table, id |-> id, status |-> status,
     error |-> error, log |-> log, stmts |-> stmts, user |-> user, data |-> data,
     page |-> NoPage]

Idle == Resp("none", NoHeader, NoTable, 0, 0, NoError, NoLog, {}, NoSession, <<>>)

\* the 401 every gated handler returns when authenticateRequest fails, before
\* it reads its parameters
Unauthorized(op, h) ==
    Resp(op, h, NoTable, 0, 401, AuthenticateRequest(h).error, NoLog, {}, NoSession, <<>>)

\* a response of a gated handler after the gate
Answer(op, h, table, id, status, error, log, stmts, data) ==
    Resp(op, h, table, id, status, error, log, stmts, AuthenticateRequest(h).user, data)

----------------------------------------------------------------------------
(* The route handlers: one action per handler *)

\* GET /api/auth/verify
AuthVerify(h) ==
    /\ last' = IF ~AuthenticateRequest(h).success
               THEN Unauthorized("verify", h)
               ELSE Answer("verify", h, NoTable, 0, 200, NoError, NoLog, {}, <<>>)
    /\ UNCHANGED <<db, now, held, aside>>

\* GET /api/rest/[tableName]
RestList(h, tableName, limit, offset) ==
    /\ last' =
         IF ~AuthenticateRequest(h).success
         THEN Unauthorized("list", h)
         ELSE IF GetTableSchema(db, tableName) = NoTable
         THEN Answer("list", h, tableName, 0, 404, "Table not found", NoLog,
                     {"PRAGMA"}, <<>>)
         ELSE [Answer("list", h, tableName, 0, 200, NoError, NoLog,
                      {"PRAGMA", "SELECT", "COUNT"},
                      GetAllFromTable(db, tableName, ParseLimit(limit),
                                      ParseOffset(offset)))
                 EXCEPT !.page = Pagination(ParseLimit(limit), ParseOffset(offset),
                                            GetTableRowCount(db, tableName))]
    /\ UNCHANGED <<db, now, held, aside>>

\* the create handler without its look at the catalog
RestCreateUnchecked(h, tableName, data) ==
    IF ~AuthenticateRequest(h).success
    THEN /\ last' = Unauthorized("create", h)
         /\ UNCHANGED <<db, now, held, aside>>
    ELSE LET r == InsertIntoTable(db, tableName, WithoutId(data))
         IN  /\ r.row.id <= MaxId
             /\ db' = r.db
             /\ last' = IF r.threw
                        THEN Answer("create", h, tableName, 0, 500,
                                    "Failed to create record", r.log,
                                    r.stmts, <<>>)
                        ELSE Answer("create", h, tableName, r.row.id, 201, NoError,
                                    NoLog, r.stmts, <<r.row>>)
             /\ UNCHANGED <<now, held, aside>>

\* POST /api/rest/[tableName]
RestCreate(h, tableName, data) ==
    IF ~AuthenticateRequest(h).success
    THEN /\ last' = Unauthorized("create", h)
         /\ UNCHANGED <<db, now, held, aside>>
    ELSE IF GetTableSchema(db, tableName) = NoTable
    THEN /\ last' = Answer("create", h, tableName, 0, 404, "Table not found", NoLog,
                           {"PRAGMA"}, <<>>)
         /\ UNCHANGED <<db, now, held, aside>>
    ELSE LET r == InsertIntoTable(db, tableName, WithoutId(data))
         IN  /\ r.row.id <= MaxId
             /\ db' = r.db
             /\ last' = IF r.threw
                        THEN Answer("create", h, tableName, 0, 500,
                                    "Failed to create record", r.log,
                                    {"PRAGMA"} \cup r.stmts, <<>>)
                        ELSE Answer("create", h, tableName, r.row.id, 201, NoError,
                                    NoLog, {"PRAGMA"} \cup r.stmts, <<r.row>>)
             /\ UNCHANGED <<now, held, aside>>

\* GET /api/rest/[tableName]/[id]
RestGet(h, tableName, id) ==
    /\ last' =
         IF ~AuthenticateRequest(h).success
         THEN Unauthorized("get", h)
         ELSE IF id = NaN
         THEN Answer("get", h, tableName, id, 400, "Invalid ID format", NoLog, {}, <<>>)
         ELSE IF GetTableSchema(db, tableName) = NoTable
         THEN Answer("get", h, tableName, id, 404, "Table not found", NoLog,
                     {"PRAGMA"}, <<>>)
         ELSE IF id \notin DOMAIN db[TableOf(db, tableName)].rows
         THEN Answer("get", h, tableName, id, 404, "Record not found", NoLog,
                     {"PRAGMA", "SELECT"}, <<>>)
         ELSE Answer("get", h, tableName, id, 200, NoError, NoLog,
                     {"PRAGMA", "SELECT"},
                     <<Row(id, db[TableOf(db, tableName)].rows[id])>>)
    /\ UNCHANGED <<db, now, held, aside>>

\* PUT /api/rest/[tableName]/[id]
RestUpdate(h, tableName, id, data) ==
    IF ~AuthenticateRequest(h).success
    THEN /\ last' = Unauthorized("update", h)
         /\ UNCHANGED <<db, now, held, aside>>
    ELSE IF id = NaN
    THEN /\ last' = Answer("update", h, tableName, id, 400, "Invalid ID format",
                           NoLog, {}, <<>>)
         /\ UNCHANGED <<db, now, held, aside>>
    ELSE IF GetTableSchema(db, tableName) = NoTable
    THEN /\ last' = Answer("update", h, tableName, id, 404, "Table not found", NoLog,
                           {"PRAGMA"}, <<>>)
         /\ UNCHANGED <<db, now, held, aside>>
    ELSE LET r == UpdateInTable(db, tableName, id, WithoutId(data))
         IN  /\ db' = r.db
             /\ last' = IF r.threw
                        THEN Answer("update", h, tableName, id, 500,
                                    "Failed to update record", r.log,
                                    {"PRAGMA"} \cup r.stmts, <<>>)
                        ELSE IF r.row = NoRow
                        THEN Answer("update", h, tableName, id, 404,
                                    "Record not found", NoLog,
                                    {"PRAGMA"} \cup r.stmts, <<>>)
                        ELSE Answer("update", h, tableName, id, 200, NoError, NoLog,
                                    {"PRAGMA"} \cup r.stmts, <<r.row>>)
             /\ UNCHANGED <<now, held, aside>>

\* the delete handler without its gate
RestDeleteUngated(h, tableName, id) ==
    IF id = NaN
    THEN /\ last' = Answer("delete", h, tableName, id, 400, "Invalid ID format",
                           NoLog, {}, <<>>)
         /\ UNCHANGED <<db, now, held, aside>>
    ELSE IF GetTableSchema(db, tableName) = NoTable
    THEN /\ last' = Answer("delete", h, tableName, id, 404, "Table not found", NoLog,
                           {"PRAGMA"}, <<>>)
         /\ UNCHANGED <<db, now, held, aside>>
    ELSE LET r == DeleteFromTable(db, tableName, id)
         IN  /\ db' = r.db
             /\ last' = IF ~r.result
                        THEN Answer("delete", h, tableName, id, 404,
                                    "Record not found", r.log,
                                    {"PRAGMA"} \cup r.stmts, <<>>)
                        ELSE Answer("delete", h, tableName, id, 200, NoError, NoLog,
                                    {"PRAGMA"} \cup r.stmts, <<>>)
             /\ UNCHANGED <<now, held, aside>>

\* DELETE /api/rest/[tableName]/[id]
RestDelete(h, tableName, id) ==
    IF ~AuthenticateRequest(h).success
    THEN /\ last' = Unauthorized("delete", h)
         /\ UNCHANGED <<db, now, held, aside>>
    ELSE IF id = NaN
    THEN /\ last' = Answer("delete", h, tableName, id, 400, "Invalid ID format",
                           NoLog, {}, <<>>)
         /\ UNCHANGED <<db, now, held, aside>>
    ELSE IF GetTableSchema(db, tableName) = NoTable
    THEN /\ last' = Answer("delete", h, tableName, id, 404, "Table not found", NoLog,
                           {"PRAGMA"}, <<>>)
         /\ UNCHANGED <<db, now, held, aside>>
    ELSE LET r == DeleteFromTable(db, tableName, id)
         IN  /\ db' = r.db
             /\ last' = IF ~r.result
                        THEN Answer("delete", h, tableName, id, 404,
                                    "Record not found", r.log,
                                    {"PRAGMA"} \cup r.stmts, <<>>)
                        ELSE Answer("delete", h, tableName, id, 200, NoError, NoLog,
                                    {"PRAGMA"} \cup r.stmts, <<>>)
             /\ UNCHANGED <<now, held, aside>>

\* GET /api/database/stats
Stats(h) ==
    /\ last' = IF ~AuthenticateRequest(h).success
               THEN Unauthorized("stats", h)
               ELSE Answer("stats", h, NoTable, 0, 200, NoError, NoLog,
                           {"SELECT"} \cup (IF DOMAIN db = {} THEN {} ELSE {"COUNT"}),
                           <<>>)
    /\ UNCHANGED <<db, now, held, aside>>

\* GET /api/database/tables
TablesList(h) ==
    /\ last' = IF ~AuthenticateRequest(h).success
               THEN Unauthorized("tables", h)
               ELSE Answer("tables", h, NoTable, 0, 200, NoError, NoLog,
                           {"SELECT"} \cup (IF DOMAIN db = {} THEN {}
                                            ELSE {"PRAGMA", "COUNT"}),
                           <<>>)
    /\ UNCHANGED <<db, now, held, aside>>

\* POST /api/database/tables
TablesCreate(h, tableName, columns) ==
    IF ~AuthenticateRequest(h).success
    THEN /\ last' = Unauthorized("createTable", h)
         /\ UNCHANGED <<db, now, held, aside>>
    ELSE IF tableName = MissingName
    THEN /\ last' = Answer("createTable", h, tableName, 0, 400,
                           "Table name and columns are required", NoLog, {}, <<>>)
         /\ UNCHANGED <<db, now, held, aside>>
    ELSE IF ~IsIdentifier(tableName)
    THEN /\ last' = Answer("createTable", h, tableName, 0, 400,
                           "Invalid table name. Use only letters, numbers, and underscores.",
                           NoLog, {}, <<>>)
         /\ UNCHANGED <<db, now, held, aside>>
    ELSE LET r == CreateTable(db, tableName, SchemaOf(columns))
         IN  /\ db' = r.db
             /\ last' = IF r.result
                        THEN Answer("createTable", h, tableName, 0, 200, NoError, NoLog,
                                    r.stmts \cup {"PRAGMA"}, <<>>)
                        ELSE Answer("createTable", h, tableName, 0, 500,
                                    "Failed to create table", SqliteError, r.stmts, <<>>)
             /\ UNCHANGED <<now, held, aside>>

\* GET /api/database/tables/[tableName]
TableDescribe(h, tableName) ==
    /\ last' =
         IF ~AuthenticateRequest(h).success
         THEN Unauthorized("describe", h)
         ELSE IF GetTableSchema(db, tableName) = NoTable
         THEN Answer("describe", h, tableName, 0, 404, "Table not found", NoLog,
                     {"PRAGMA"}, <<>>)
         ELSE Answer("describe", h, tableName, 0, 200, NoError, NoLog,
                     {"PRAGMA", "COUNT"}, <<>>)
    /\ UNCHANGED <<db, now, held, aside>>

\* DELETE /api/database/tables/[tableName]
TableDrop(h, tableName) ==
    IF ~AuthenticateRequest(h).success
    THEN /\ last' = Unauthorized("dropTable", h)
         /\ UNCHANGED <<db, now, held, aside>>
    ELSE IF tableName = "admin_users" \/ tableName = "app_users"
    THEN /\ last' = Answer("dropTable", h, tableName, 0, 403,
                           "Cannot delete system tables", NoLog, {}, <<>>)
         /\ UNCHANGED <<db, now, held, aside>>
    ELSE LET r == DropTable(db, tableName)
         IN  /\ db' = r.db
             /\ last' = Answer("dropTable", h, tableName, 0, 200, NoError, NoLog,
                               r.stmts, <<>>)
             /\ UNCHANGED <<now, held, aside>>

----------------------------------------------------------------------------
(* The service operations and the client *)

\* auth.signIn of the client: AuthService.login, and on success the client
\* keeps the token
SignIn(username, password) ==
    LET r == LoginResult(username, password)
    IN  /\ held' = IF r.success THEN r.token ELSE held
        /\ last' = Resp("login", NoHeader, NoTable, r.token.id,
                        IF r.success THEN 200
                        ELSE IF r.error = LoginError THEN 401 ELSE 500,
                        r.error, NoLog,
                        {"SELECT"}, r.user, <<>>)
        /\ UNCHANGED <<db, now, aside>>

\* auth.signOut of the client
SignOut ==
    /\ held # NoToken
    /\ held' = NoToken
    /\ last' = Resp("logout", NoHeader, NoTable, 0, 200, NoError, NoLog, {},
                    NoSession, <<>>)
    /\ UNCHANGED <<db, now, aside>>

\* AuthService.createAdminUser
CreateAdminUser(username, password) ==
    IF ~AdminUsersReadable(db)
    THEN /\ last' = Resp("createAdminUser", NoHeader, "admin_users", 0, 500,
                         "Failed to create user", SqliteError, {"SELECT"}, NoSession, <<>>)
         /\ UNCHANGED <<db, now, held, aside>>
    ELSE IF GetAdminUser(db, username) # NoRow
    THEN /\ last' = Resp("createAdminUser", NoHeader, "admin_users", 0, 409,
                         "Username already exists", NoLog, {"SELECT"}, NoSession, <<>>)
         /\ UNCHANGED <<db, now, held, aside>>
    ELSE LET r == InsertIntoTable(db, "admin_users",
                      [username |-> username, password_hash |-> HashSync(password)])
         IN  /\ r.row.id <= MaxId
             /\ db' = r.db
             /\ last' = IF r.threw
                        THEN Resp("createAdminUser", NoHeader, "admin_users", 0, 500,
                                  "Failed to create user", SqliteError,
                                  {"SELECT", "INSERT"}, NoSession, <<>>)
                        ELSE Resp("createAdminUser", NoHeader, "admin_users", r.row.id,
                                  200, NoError, NoLog, {"SELECT", "INSERT"}, NoSession,
                                  <<r.row>>)
             /\ UNCHANGED <<now, held, aside>>

\* the clock advances by d hours
Tick(d) ==
    /\ now + d <= MaxTime
    /\ now' = now + d
    /\ last' = Idle
    /\ UNCHANGED <<db, held, aside>>

----------------------------------------------------------------------------
(* The client library *)

\* a field of the query builder: undefined, or the number it was set to
Unset == <<>>
SetTo(count) == <<count>>

\* new MiniBaseQueryBuilder(tableName, client): limitValue and offsetValue
\* start undefined
NewBuilder(tableName) ==
    [table |-> tableName, limitValue |-> Unset, offsetValue |-> Unset]

NoBuilder == NewBuilder(NoTable)

\* if (this.limitValue) params.append('limit', this.limitValue.toString()):
\* the parameter is appended for a truthy value only
QueryParam(value) == IF value = Unset \/ value[1] = 0 THEN Absent ELSE Digits(value[1])

\* the request without the Authorization header whatever the key
RequestHeaderBare(apiKey) == NoHeader

\* if (this.apiKey) headers['Authorization'] = `Bearer ${this.apiKey}`
RequestHeader(apiKey) == IF apiKey = NoToken THEN NoHeader ELSE Bearer(apiKey)

NoBody == EmptyRows

\* if (body && (method === 'POST' || method === 'PUT')) options.body = ...
RequestBody(method, body) == IF method \in {"POST", "PUT"} THEN body ELSE NoBody

\* a JS value: null, undefined, or a value
Null == [tag |-> "null", v |-> <<>>]
Undefined == [tag |-> "undefined", v |-> <<>>]
Value(v) == [tag |-> "value", v |-> <<v>>]

\* what a client operation resolves to
Result(data, error) == [data |-> data, error |-> error]

NoResult == Result(Undefined, NoError)

\* the catch block of every operation: fetch rejected
FetchFailed == Result(Null, "fetch failed")

\* the client idle, or with a request handed to fetch
Request(pc, op, method, table, id, body, query, header, result) ==
    [pc |-> pc, op |-> op, method |-> method, table |-> table, id |-> id,
     body |-> body, query |-> query, header |-> header, result |-> result]

NoRequest ==
    Request("idle", "none", "", NoTable, 0, NoBody, <<Absent, Absent>>, NoHeader,
            NoResult)

\* client.request(method, endpoint, body), up to the call of fetch
Sent(op, method, table, id, body, query) ==
    Request("sent", op, method, table, id, RequestBody(method, body), query,
            RequestHeader(held), NoResult)

\* response.ok
Ok(r) == r.status >= 200 /\ r.status <= 299

\* the data field of a response body
BodyData(r) ==
    IF ~Ok(r) THEN Undefined
    ELSE IF r.op = "list" THEN Value(r.data)
    ELSE IF r.op \in {"get", "create", "update"} /\ r.data # <<>> THEN Value(r.data[1])
    ELSE Undefined

\* the message field of a response body
BodyMessage(r) ==
    CASE Ok(r) /\ r.op = "create" -> Value("Record created successfully")
      [] Ok(r) /\ r.op = "update" -> Value("Record updated successfully")
      [] Ok(r) /\ r.op = "delete" -> Value("Record deleted successfully")
      [] OTHER -> Undefined

\* the results field of a response body
BodyResults(r) == IF Ok(r) /\ r.op = "sql" THEN Value(r.data) ELSE Undefined

\* errorData.error || fallback
ErrorOf(r, fallback) == IF r.error = NoError THEN fallback ELSE r.error

\* the operations spreading the response body whatever its status
EnvelopeSpreading(op, r) ==
    CASE op = "execute" -> Result(BodyData(r), NULL)
      [] op = "insert" -> Result(BodyData(r), NULL)
      [] op = "update" -> Result(BodyData(r), NULL)
      [] op = "delete" -> Result(Value([message |-> BodyMessage(r)]), NULL)
      [] op = "getById" -> Result(BodyData(r), NULL)
      [] op = "sql" -> Result(BodyResults(r), NULL)

\* what each operation makes of the response it awaited
Envelope(op, r) ==
    CASE op = "execute" ->
           IF ~Ok(r) THEN Result(Null, ErrorOf(r, "Request failed"))
           ELSE Result(BodyData(r), NULL)
      [] op = "insert" ->
           IF ~Ok(r) THEN Result(Null, ErrorOf(r, "Insert failed"))
           ELSE Result(BodyData(r), NULL)
      [] op = "update" ->
           IF ~Ok(r) THEN Result(Null, ErrorOf(r, "Update failed"))
           ELSE Result(BodyData(r), NULL)
      [] op = "delete" ->
           IF ~Ok(r) THEN Result(Null, ErrorOf(r, "Delete failed"))
           ELSE Result(Value([message |-> BodyMessage(r)]), NULL)
      [] op = "getById" ->
           IF ~Ok(r) THEN Result(Null, ErrorOf(r, "Record not found"))
           ELSE Result(BodyData(r), NULL)
      [] op = "sql" ->
           IF ~Ok(r) THEN Result(Null, ErrorOf(r, "SQL execution failed"))
           ELSE Result(BodyResults(r), NULL)

\* client.from(tableName).select()
From(tableName) ==
    /\ builder' = NewBuilder(tableName)
    /\ UNCHANGED <<db, now, held, last, client, calls>>

\* builder.limit(count)
Limit(count) ==
    /\ builder # NoBuilder
    /\ builder' = [builder EXCEPT !.limitValue = SetTo(count)]
    /\ UNCHANGED <<db, now, held, last, client, calls>>

\* builder.offset(count)
Offset(count) ==
    /\ builder # NoBuilder
    /\ builder' = [builder EXCEPT !.offsetValue = SetTo(count)]
    /\ UNCHANGED <<db, now, held, last, client, calls>>

\* builder.execute(), up to the await of the response
Execute ==
    /\ builder # NoBuilder
    /\ client.pc = "idle"
    /\ client' = Sent("execute", "GET", builder.table, 0, NoBody,
                      <<QueryParam(builder.limitValue),
                        QueryParam(builder.offsetValue)>>)
    /\ last' = Idle
    /\ UNCHANGED <<db, now, held, builder, calls>>

\* table.insert(data), up to the await of the response
Insert(tableName, data) ==
    /\ client.pc = "idle"
    /\ client' = Sent("insert", "POST", tableName, 0, data, <<Absent, Absent>>)
    /\ last' = Idle
    /\ UNCHANGED <<db, now, held, builder, calls>>

\* table.update(id, data), up to the await of the response
Update(tableName, id, data) ==
    /\ client.pc = "idle"
    /\ client' = Sent("update", "PUT", tableName, id, data, <<Absent, Absent>>)
    /\ last' = Idle
    /\ UNCHANGED <<db, now, held, builder, calls>>

\* table.delete(id), up to the await of the response
Delete(tableName, id) ==
    /\ client.pc = "idle"
    /\ client' = Sent("delete", "DELETE", tableName, id, NoBody, <<Absent, Absent>>)
    /\ last' = Idle
    /\ UNCHANGED <<db, now, held, builder, calls>>

\* table.getById(id), up to the await of the response
GetById(tableName, id) ==
    /\ client.pc = "idle"
    /\ client' = Sent("getById", "GET", tableName, id, NoBody, <<Absent, Absent>>)
    /\ last' = Idle
    /\ UNCHANGED <<db, now, held, builder, calls>>

\* client.sql(query, params), up to the await of the response
Sql ==
    /\ client.pc = "idle"
    /\ client' = Sent("sql", "POST", NoTable, 0, [query |-> "SELECT 1"],
                      <<Absent, Absent>>)
    /\ last' = Idle
    /\ UNCHANGED <<db, now, held, builder, calls>>

\* POST /api/database/sql: a read, behind the gate
DatabaseSql(h) ==
    /\ last' = IF ~AuthenticateRequest(h).success
               THEN Unauthorized("sql", h)
               ELSE Answer("sql", h, NoTable, 0, 200, NoError, NoLog, {"SELECT"},
                           <<>>)
    /\ UNCHANGED <<db, now, held, aside>>

\* the server answers the request in flight
Serve ==
    /\ client.pc = "sent"
    /\ last.op = "none"
    /\ CASE client.op = "execute" ->
              RestList(client.header, client.table, client.query[1], client.query[2])
         [] client.op = "insert" ->
              RestCreate(client.header, client.table, client.body)
         [] client.op = "update" ->
              RestUpdate(client.header, client.table, client.id, client.body)
         [] client.op = "delete" ->
              RestDelete(client.header, client.table, client.id)
         [] client.op = "getById" ->
              RestGet(client.header, client.table, client.id)
         [] client.op = "sql" ->
              DatabaseSql(client.header)

\* the awaited response arrives and the operation resolves
Receive ==
    /\ client.pc = "sent"
    /\ last.op # "none"
    /\ client' = [client EXCEPT !.pc = "idle", !.result = Envelope(client.op, last)]
    /\ UNCHANGED <<db, now, held, last, builder, calls>>

\* fetch rejects: the operation resolves from its catch block
NetworkFailure ==
    /\ client.pc = "sent"
    /\ client' = [client EXCEPT !.pc = "idle", !.result = FetchFailed]
    /\ last' = Idle
    /\ UNCHANGED <<db, now, held, builder, calls>>

----------------------------------------------------------------------------
(* Engine calls statement by statement: server processes on one database  *)
(* file.  Each statement is a transaction of its own; nothing holds the    *)
(* file between two statements of one call.                                *)

Processes == {1, 2}

\* a call of a process: where it is, the row or name it is about, the count
\* it read, its result
Call(pc, op, id, username, count, result, log) ==
    [pc |-> pc, op |-> op, id |-> id, username |-> username, count |-> count,
     result |-> result, log |-> log]

NoCall == Call("idle", "none", 0, NULL, 0, FALSE, NoLog)

\* deleteFromTable('admin_users', id), first statement: the row to delete is
\* read, and the main admin refused
DeleteSelect(p, id) ==
    /\ calls[p].pc \in {"idle", "done"}
    /\ calls' = [calls EXCEPT ![p] =
          IF ~AdminUsersReadable(db)
          THEN Call("done", "delete", id, NULL, 0, FALSE, SqliteError)
          ELSE IF id \notin DOMAIN db["admin_users"].rows
          THEN Call("counted", "delete", id, NULL, 0, FALSE, NoLog)
          ELSE IF db["admin_users"].rows[id]["username"] = "admin"
          THEN Call("done", "delete", id, "admin", 0, FALSE, MainAdminError)
          ELSE Call("selected", "delete", id,
                    db["admin_users"].rows[id]["username"], 0, FALSE, NoLog)]
    /\ UNCHANGED <<db, now, held, last, client, builder>>

\* second statement: the accounts are counted, and the last one refused
DeleteCount(p) ==
    /\ calls[p].pc = "selected"
    /\ calls' = [calls EXCEPT ![p] =
          IF ~AdminUsersReadable(db)
          THEN [@ EXCEPT !.pc = "done", !.log = SqliteError]
          ELSE IF Cardinality(DOMAIN db["admin_users"].rows) <= 1
          THEN [@ EXCEPT !.pc = "done",
                         !.count = Cardinality(DOMAIN db["admin_users"].rows),
                         !.log = LastAdminError]
          ELSE [@ EXCEPT !.pc = "counted",
                         !.count = Cardinality(DOMAIN db["admin_users"].rows)]]
    /\ UNCHANGED <<db, now, held, last, client, builder>>

\* third statement, run only while more than one account exists at this very
\* moment
DeleteRunRecounting(p) ==
    /\ calls[p].pc = "counted"
    /\ LET r == IF Cardinality(DOMAIN AdminRowsOf(db)) <= 1
                THEN Deleted(db, FALSE, LastAdminError, {})
                ELSE DeleteStatement(db, "admin_users", calls[p].id, {})
       IN  /\ db' = r.db
           /\ calls' = [calls EXCEPT ![p] =
                  [@ EXCEPT !.pc = "done", !.result = r.result, !.log = r.log]]
    /\ UNCHANGED <<now, held, last, client, builder>>

\* third statement: the DELETE
DeleteRun(p) ==
    /\ calls[p].pc = "counted"
    /\ LET r == DeleteStatement(db, "admin_users", calls[p].id, {})
       IN  /\ db' = r.db
           /\ calls' = [calls EXCEPT ![p] =
                  [@ EXCEPT !.pc = "done", !.result = r.result, !.log = r.log]]
    /\ UNCHANGED <<now, held, last, client, builder>>

\* AuthService.createAdminUser, first statement: the username is looked up
CreateSelect(p, username) ==
    /\ calls[p].pc \in {"idle", "done"}
    /\ calls' = [calls EXCEPT ![p] =
          IF ~AdminUsersReadable(db)
          THEN Call("done", "create", 0, username, 0, FALSE, SqliteError)
          ELSE IF GetAdminUser(db, username) # NoRow
          THEN Call("done", "create", 0, username, 0, FALSE, NoLog)
          ELSE Call("free", "create", 0, username, 0, FALSE, NoLog)]
    /\ UNCHANGED <<db, now, held, last, client, builder>>

\* second statement: the INSERT of db.createAdminUser
CreateInsert(p) ==
    /\ calls[p].pc = "free"
    /\ LET r == InsertIntoTable(db, "admin_users",
                    [username |-> calls[p].username,
                     password_hash |-> HashSync("pw")])
       IN  /\ r.row.id <= MaxId
           /\ db' = r.db
           /\ calls' = [calls EXCEPT ![p] =
                  [@ EXCEPT !.pc = "done", !.id = r.row.id, !.result = ~r.threw,
                            !.log = r.log]]
    /\ UNCHANGED <<now, held, last, client, builder>>

----------------------------------------------------------------------------
(* Startup *)

\* what ensureMainAdminExists gives back: the database after it, its result
Ensured(d, result, log) == [db |-> d, result |-> result, log |-> log]

\* ensureMainAdminExists: the main admin inserted when no row is named
\* 'admin'; every error caught, logged and turned into the result false
EnsureMainAdminExists(d) ==
    IF ~AdminUsersReadable(d)
    THEN Ensured(d, FALSE, SqliteError)
    ELSE IF GetAdminUser(d, "admin") # NoRow
    THEN Ensured(d, FALSE, NoLog)
    ELSE LET r == InsertIntoTable(d, "admin_users",
                      [username |-> "admin", password_hash |-> HashSync("admin123")])
         IN  IF r.threw THEN Ensured(d, FALSE, SqliteError)
             ELSE Ensured(r.db, TRUE, NoLog)

\* CREATE TABLE IF NOT EXISTS name (...)
CreateTableIfNotExists(d, tableName, schema) ==
    IF TableOf(d, tableName) # NoTable THEN d ELSE Put(d, tableName, EmptyTable(schema))

\* new MiniBaseDB(): a server process starts on the database file
Initialize ==
    LET d == CreateTableIfNotExists(
                 CreateTableIfNotExists(db, "admin_users", AdminUsersSchema),
                 "app_users", AppUsersSchema)
        r == EnsureMainAdminExists(d)
    IN  /\ Max(DOMAIN r.db["admin_users"].rows) <= MaxId
        /\ db' = r.db
        /\ last' = Resp("initialize", NoHeader, "admin_users", 0,
                        IF r.result THEN 1 ELSE 0, NoError, r.log,
                        {"CREATE", "SELECT"} \cup (IF r.result THEN {"INSERT"} ELSE {}),
                        NoSession, <<>>)
        /\ UNCHANGED <<now, held, aside>>

----------------------------------------------------------------------------
(* Specifications *)

Init ==
    /\ db = InitialDb
    /\ now = 0
    /\ held = NoToken
    /\ last = Idle
    /\ client = NoRequest
    /\ builder = NoBuilder
    /\ calls = [p \in Processes |-> NoCall]

\* every request of the engine, with the table names, the ids and the bodies
\* drawn from the given sets
Requests(names, ids, inserts, updates) ==
    \/ \E h \in Headers : AuthVerify(h)
    \/ \E h \in DataHeaders :
          \/ Stats(h)
          \/ TablesList(h)
          \/ \E n \in Params(h, CreateNames), c \in Params(h, ColumnLists) :
                TablesCreate(h, n, c)
          \/ \E t \in Params(h, names) :
                \/ TableDescribe(h, t)
                \/ TableDrop(h, t)
                \/ \E pg \in Params(h, Pages) : RestList(h, t, pg[1], pg[2])
                \/ \E data \in Params(h, inserts) : RestCreate(h, t, data)
                \/ \E id \in Params(h, ids) :
                      \/ RestGet(h, t, id)
                      \/ RestDelete(h, t, id)
                      \/ \E data \in Params(h, updates) : RestUpdate(h, t, id, data)

\* the requests on the administrative accounts
AccountRequests(names) ==
    \E h \in DataHeaders : \E t \in Params(h, names) :
        \/ \E data \in Params(h, InsertBodies) : RestCreate(h, t, data)
        \/ \E id \in Params(h, IdParams) :
              \/ RestGet(h, t, id)
              \/ RestDelete(h, t, id)
              \/ \E data \in Params(h, UpdateBodies) : RestUpdate(h, t, id, data)

Service ==
    \/ \E u \in Usernames, p \in Passwords : SignIn(u, p)
    \/ \E u \in Usernames : CreateAdminUser(u, "pw")
    \/ SignOut

\* the whole engine behind its gate, on a coarse clock
Next ==
    \/ Requests(TableNames, {1, NaN}, {[body |-> "hello"]}, {[username |-> "bob"]})
    \/ Service
    \/ Tick(TickStep)

Spec == Init /\ [][Next]_vars

\* the administrative accounts under every request that reaches them, with
\* the table name in any spelling
NextAccounts ==
    \/ AccountRequests({"admin_users", "ADMIN_USERS"})
    \/ Service

SpecAccounts == Init /\ [][NextAccounts]_vars

\* the same, with the table name spelled as the engine declares it
NextAccountsExact ==
    \/ AccountRequests({"admin_users"})
    \/ Service

SpecAccountsExact == Init /\ [][NextAccountsExact]_vars

\* sign-in, verification and the accounts, on a clock of one hour
NextToken ==
    \/ \E h \in Headers : AuthVerify(h)
    \/ \E h \in DataHeaders : \E id \in Params(h, 1 .. MaxId) :
          RestDelete(h, "admin_users", id)
    \/ Service
    \/ Tick(1)

SpecToken == Init /\ [][NextToken]_vars

\* table names, body fields and column definitions that the identifier
\* pattern rejects, next to ones it accepts
IdentifierNames == {"admin_users", QuotedAdminUsers, BadName}

IdentifierInserts ==
    { [username |-> "bob", password_hash |-> HashSync("pw")],
      (QuotedUsername :> "bob") @@ [password_hash |-> HashSync("pw")],
      (BadName :> "x") }

IdentifierUpdates ==
    { [username |-> "bob"], (QuotedUsername :> "bob"), (BadName :> "x") }

QuotedColumns ==
    <<ColumnDef("id", "INTEGER", "PRIMARY KEY"), ColumnDef(QuotedColumn, "TEXT", "")>>

IdentifierColumnLists == {NotesColumns, QuotedColumns}

\* the record and schema requests with names of every kind
NextIdentifiers ==
    \/ SignIn("admin", "admin123")
    \/ \E h \in DataHeaders :
          \/ \E n \in Params(h, CreateNames), c \in Params(h, IdentifierColumnLists) :
                TablesCreate(h, n, c)
          \/ \E t \in Params(h, IdentifierNames) :
                \/ \E pg \in Params(h, Pages) : RestList(h, t, pg[1], pg[2])
                \/ \E data \in Params(h, IdentifierInserts) : RestCreate(h, t, data)
                \/ \E id \in Params(h, 1 .. MaxId) :
                      \/ RestGet(h, t, id)
                      \/ RestDelete(h, t, id)
                      \/ \E data \in Params(h, IdentifierUpdates) :
                            RestUpdate(h, t, id, data)

SpecIdentifiers == Init /\ [][NextIdentifiers]_vars

\* the query parameters of the list requests on the accounts
PageQueries ==
    {<<Absent, Absent>>, <<Absent, Digits(1)>>, <<Digits(1), Absent>>,
     <<Digits(0), Digits(0)>>, <<Digits(1), Digits(1)>>, <<Digits(1), Digits(2)>>,
     <<Digits(2), Digits(0)>>, <<Digits(2), Digits(1)>>}

\* listing the accounts page by page while accounts come and go
NextPages ==
    \/ \E h \in DataHeaders : \E pg \in Params(h, PageQueries) :
          RestList(h, "admin_users", pg[1], pg[2])
    \/ AccountRequests({"admin_users"})
    \/ Service

SpecPages == Init /\ [][NextPages]_vars

\* every request on a table that comes and goes
NextCatalog ==
    \/ Requests({"notes"}, {1, NaN}, {[body |-> "hello"]}, {[body |-> "hello"]})
    \/ SignIn("admin", "admin123")

SpecCatalog == Init /\ [][NextCatalog]_vars

\* the same requests while the token of a sign-in ages and is given up
NextGate ==
    \/ Requests({"notes"}, {1, NaN}, {[body |-> "hello"]}, {[body |-> "hello"]})
    \/ SignIn("admin", "admin123")
    \/ SignOut
    \/ Tick(TickStep)

SpecGate == Init /\ [][NextGate]_vars

\* bodies that carry an identity: under the name id, and under the name ID,
\* which the engine resolves to the same column
IdentityInserts ==
    { [username |-> "bob", password_hash |-> HashSync("pw")],
      [id |-> 1, username |-> "bob", password_hash |-> HashSync("pw")],
      [ID |-> MaxId, username |-> "bob", password_hash |-> HashSync("pw")] }

IdentityUpdates ==
    { [username |-> "bob"], [id |-> MaxId, username |-> "bob"], [ID |-> MaxId] }

\* inserts and updates on the accounts with bodies that carry an identity
NextIdentity ==
    \/ \E h \in DataHeaders :
          \/ \E data \in Params(h, IdentityInserts) : RestCreate(h, "admin_users", data)
          \/ \E id \in Params(h, 1 .. MaxId) :
                \/ RestGet(h, "admin_users", id)
                \/ RestDelete(h, "admin_users", id)
                \/ \E data \in Params(h, IdentityUpdates) :
                      RestUpdate(h, "admin_users", id, data)
    \/ Service

SpecIdentity == Init /\ [][NextIdentity]_vars

\* what the client is asked to insert and to update: bodies with and
\* without an id
ClientInserts ==
    { [username |-> "bob", password_hash |-> HashSync("pw")],
      [id |-> 1, username |-> "bob", password_hash |-> HashSync("pw")] }

ClientUpdates == { [username |-> "bob"], [id |-> MaxId, username |-> "bob"] }

\* the client library against the server: sign-in and sign-out, the query
\* builder, the record operations, each request in flight until the server
\* answers or the network fails
NextClient ==
    \/ client.pc = "idle" /\ \E p \in Passwords : SignIn("admin", p)
    \/ client.pc = "idle" /\ SignOut
    \/ From("admin_users")
    \/ \E count \in 0 .. MaxCount : Limit(count) \/ Offset(count)
    \/ Execute
    \/ \E data \in ClientInserts : Insert("admin_users", data)
    \/ \E id \in 1 .. MaxId :
          \/ Delete("admin_users", id)
          \/ GetById("admin_users", id)
          \/ \E data \in ClientUpdates : Update("admin_users", id, data)
    \/ Sql
    \/ Serve
    \/ Receive
    \/ NetworkFailure

SpecClient == Init /\ [][NextClient]_vars

\* two server processes deleting and creating accounts statement by
\* statement, after the accounts were renamed and created
NextRace ==
    \/ SignIn("admin", "admin123")
    \/ \E h \in DataHeaders :
          RestUpdate(h, "admin_users", 1, [username |-> "carol"])
    \/ \E p \in Processes :
          \/ \E id \in 1 .. MaxId : DeleteSelect(p, id)
          \/ DeleteCount(p)
          \/ DeleteRun(p)
          \/ \E u \in Usernames : CreateSelect(p, u)
          \/ CreateInsert(p)

SpecRace == Init /\ [][NextRace]_vars

\* the columns of the accounts, declared by a create-table request
AccountColumns ==
    <<ColumnDef("id", "INTEGER", "PRIMARY KEY"), ColumnDef("username", "TEXT", ""),
      ColumnDef("password_hash", "TEXT", "")>>

\* server processes starting again on a database whose accounts and whose
\* reserved tables were written to in every way the handlers allow
NextRecovery ==
    \/ SignIn("admin", "admin123")
    \/ \E h \in DataHeaders :
          \/ \E t \in Params(h, {"admin_users", "ADMIN_USERS"}) :
                \/ TableDrop(h, t)
                \/ \E id \in Params(h, 1 .. MaxId) : RestDelete(h, t, id)
          \/ \E c \in Params(h, {AccountColumns, NotesColumns}) :
                TablesCreate(h, "admin_users", c)
          \/ \E data \in Params(h, InsertBodies) : RestCreate(h, "admin_users", data)
          \/ \E id \in Params(h, 1 .. MaxId) :
                RestUpdate(h, "admin_users", id, [username |-> "bob"])
    \/ \E u \in Usernames : CreateAdminUser(u, "pw")
    \/ Initialize

SpecRecovery == Init /\ [][NextRecovery]_vars

\* the same, with no request that spells a reserved table in another case
NextRecoveryExact ==
    \/ SignIn("admin", "admin123")
    \/ \E h \in DataHeaders :
          \/ TableDrop(h, "admin_users")
          \/ \E c \in Params(h, {AccountColumns, NotesColumns}) :
                TablesCreate(h, "admin_users", c)
          \/ \E data \in Params(h, InsertBodies) : RestCreate(h, "admin_users", data)
          \/ \E id \in Params(h, 1 .. MaxId) :
                \/ RestDelete(h, "admin_users", id)
                \/ RestUpdate(h, "admin_users", id, [username |-> "bob"])
    \/ \E u \in Usernames : CreateAdminUser(u, "pw")
    \/ Initialize

SpecRecoveryExact == Init /\ [][NextRecoveryExact]_vars

----------------------------------------------------------------------------
(* The administrative accounts *)

AdminRows == IF "admin_users" \in DOMAIN db THEN db["admin_users"].rows ELSE EmptyRows

\* the responses of the delete handler that come from deleteFromTable
DeleteRan(r) == r.op = "delete" /\ r.status \in {200, 404} /\ "PRAGMA" \in r.stmts

\* C1: after initialization, whatever inserts, updates and deletes on
\* admin_users and whatever createAdminUser calls have run, admin_users holds
\* at least one row.
C1_AdminUsersNeverEmpty == Cardinality(DOMAIN AdminRows) >= 1

\* C2: the row created at startup as the account 'admin' (the first row of
\* admin_users, id 1) is still in the table after any sequence of insert,
\* update and delete requests on admin_users.
C2_BootstrapAccountKept == 1 \in DOMAIN AdminRows

\* C3: a delete of an existing row of 'admin_users' is refused with the
\* main-admin error when the row's username is 'admin', however many rows
\* there are; refused with the last-admin error when the username is another
\* and the table holds one row; and performed when the username is another
\* and the table holds at least two rows.
C3_DeleteDecision ==
    [][(/\ DeleteRan(last')
        /\ last'.table = "admin_users"
        /\ last'.id \in DOMAIN AdminRows)
       => LET username == AdminRows[last'.id]["username"]
              count == Cardinality(DOMAIN AdminRows)
          IN  /\ username = "admin"
                   => last'.log = MainAdminError /\ db' = db
              /\ username # "admin" /\ count = 1
                   => last'.log = LastAdminError /\ db' = db
              /\ username # "admin" /\ count >= 2
                   => /\ last'.status = 200
                      /\ db' = [db EXCEPT !["admin_users"].rows = Drop(AdminRows, last'.id)]
      ]_vars

\* C3, its case: the delete of the 'admin' row was refused with the main-admin
\* error while a second account existed
C3_Witness ==
    /\ DeleteRan(last)
    /\ last.table = "admin_users"
    /\ last.log = MainAdminError
    /\ Cardinality(DOMAIN AdminRows) = 2

\* C4: a delete that the protection policy refuses is answered with the
\* policy's error, not with the answer given for an id that has no row.
C4_PolicyRefusalReported ==
    (DeleteRan(last) /\ last.log \in {MainAdminError, LastAdminError})
        => last.error # "Record not found"

----------------------------------------------------------------------------
(* The reserved tables *)

\* C5: an authenticated drop-table request naming 'admin_users' or
\* 'app_users' is answered 403 and runs no DROP, so both reserved tables
\* exist after any sequence of drop-table requests.
C5_ReservedTablesKept ==
    /\ (last.op = "dropTable" /\ last.table \in {"admin_users", "app_users"})
          => last.status = 403 /\ "DROP" \notin last.stmts
    /\ {"admin_users", "app_users"} \subseteq DOMAIN db

----------------------------------------------------------------------------
(* The authentication gate *)

\* the handlers of the data and schema routes
GatedOps ==
    {"list", "get", "create", "update", "delete", "tables", "describe",
     "createTable", "dropTable", "stats"}

\* the header carries a token signed by the server and not yet expired
ValidBearer(h) ==
    /\ h.present
    /\ h.prefix = "Bearer "
    /\ h.rest.kind = "jwt"
    /\ h.rest.key = JWT_SECRET
    /\ now < h.rest.exp

\* C6: a request to a data or schema route that carries no valid token is
\* answered 401, has run no statement, and leaves the database as it was.
C6_NoOperationWithoutToken ==
    [][(last'.op \in GatedOps /\ ~ValidBearer(last'.header))
       => /\ last'.status = 401
          /\ last'.stmts = {}
          /\ db' = db
      ]_vars

\* C6, its case: a delete request carrying an expired token was turned away
C6_Witness ==
    /\ last.op = "delete"
    /\ last.status = 401
    /\ last.header.rest.kind = "jwt"
    /\ last.header.rest.key = JWT_SECRET
    /\ now >= last.header.rest.exp

\* C7: the gate has three outcomes.  No header, or one that does not start
\* with 'Bearer ': the no-token error.  A token that verifyToken rejects,
\* whatever the reason: the one invalid-token error.  Otherwise: success, with
\* the identity the token carries.
C7_GateOutcomes ==
    last.op \in GatedOps \cup {"verify"}
      => LET h == last.header
         IN  /\ (~h.present \/ h.prefix # "Bearer ")
                  => last.status = 401 /\ last.error = NoTokenError
             /\ (h.present /\ h.prefix = "Bearer " /\ VerifyToken(h.rest) = NoSession)
                  => last.status = 401 /\ last.error = InvalidTokenError
             /\ (h.present /\ h.prefix = "Bearer " /\ VerifyToken(h.rest) # NoSession)
                  => /\ last.status # 401
                     /\ last.error \notin {NoTokenError, InvalidTokenError}
                     /\ last.user = Session(h.rest.id, h.rest.username,
                                            h.rest.iat, h.rest.exp)

\* C7, its case: a header of another scheme was answered with the no-token
\* error
C7_Witness ==
    /\ last.op = "verify"
    /\ last.header = BasicHeader
    /\ last.error = NoTokenError

\* the four requests the gate turns away: no header, a malformed header, an
\* expired token, a token whose signature does not verify
NoCredentials(h) == ~h.present \/ h.prefix # "Bearer "

Expired(h) ==
    /\ h.present /\ h.prefix = "Bearer " /\ h.rest.kind = "jwt"
    /\ h.rest.key = JWT_SECRET /\ now >= h.rest.exp

Forged(h) ==
    /\ h.present /\ h.prefix = "Bearer " /\ h.rest.kind = "jwt"
    /\ h.rest.key # JWT_SECRET

\* C8 as stated: the four requests are answered with the same error kind and
\* the same message (the one the request without a header gets).
C8_AllRefusalsAlike ==
    (/\ last.op \in GatedOps \cup {"verify"}
     /\ NoCredentials(last.header) \/ Expired(last.header) \/ Forged(last.header))
      => /\ last.status = 401
         /\ last.error = AuthenticateRequest(NoHeader).error

\* C8 as amended: the four requests are all answered 401; the request without
\* a header and the one with a malformed header get one message, the request
\* with an expired token and the one with a forged token get one message.
C8_RefusalsAlikeByKind ==
    (/\ last.op \in GatedOps \cup {"verify"}
     /\ NoCredentials(last.header) \/ Expired(last.header) \/ Forged(last.header))
      => /\ last.status = 401
         /\ NoCredentials(last.header)
              => \A h \in Headers :
                    NoCredentials(h) => AuthenticateRequest(h).error = last.error
         /\ (Expired(last.header) \/ Forged(last.header))
              => \A h \in Headers :
                    (Expired(h) \/ Forged(h)) => AuthenticateRequest(h).error = last.error

\* C8, its case: an expired token was turned away while a forged one is at
\* hand
C8_Witness ==
    /\ last.op = "verify"
    /\ Expired(last.header)
    /\ last.status = 401
    /\ \E h \in Headers : Forged(h)

----------------------------------------------------------------------------
(* The session tokens *)

\* C9: the token a successful login issued at time t carries the account's id
\* and username, and verifyToken accepts it at every time before t + 24 hours
\* and rejects it from t + 24 hours on.
C9_TokenLifetime ==
    /\ held # NoToken
         => /\ (VerifyToken(held) # NoSession) <=> (now < held.iat + ExpiresIn)
            /\ VerifyToken(held) # NoSession
                 => /\ VerifyToken(held).id = held.id
                    /\ VerifyToken(held).username = held.username
    /\ (last.op = "verify" /\ held # NoToken /\ last.header = Bearer(held))
         => ((last.status = 200) <=> (now < held.iat + ExpiresIn))
    /\ (last.op = "login" /\ last.status = 200)
         => /\ held.iat = now
            /\ held.id \in DOMAIN AdminRows
            /\ AdminRows[held.id]["username"] = held.username
            /\ last.user.id = held.id
            /\ last.user.username = held.username

\* C9, its case: a token issued after the start was presented exactly 24
\* hours later and rejected
C9_Witness ==
    /\ held # NoToken
    /\ held.iat > 0
    /\ now = held.iat + ExpiresIn
    /\ last.op = "verify"
    /\ last.header = Bearer(held)
    /\ last.status = 401

\* the tokens a caller may present: the one the client holds, a string that
\* is no JWT, and server-signed tokens of any account issued at the start or
\* now
TokenUniverse ==
    {held, GarbageToken}
      \cup {Token("jwt", i, u, t, t + ExpiresIn, JWT_SECRET) :
              i \in 1 .. MaxId, u \in Usernames, t \in {0, now}}

\* C10: what verifyToken answers for a token changes with the clock only: no
\* account creation, deletion, login or sign-out changes it.
C10_VerificationStateless ==
    [][now' = now
       => \A token \in TokenUniverse : VerifyToken(token)' = VerifyToken(token)
      ]_vars

\* C10, its case: a request was let through on the token of an account that
\* has since been deleted
C10_Witness ==
    /\ last.op = "verify"
    /\ last.status = 200
    /\ last.header = Bearer(held)
    /\ held.id \notin DOMAIN AdminRows

----------------------------------------------------------------------------
(* Login and account creation *)

\* an account with this username exists and the password matches its hash
CredentialsMatch(username, password) ==
    \E i \in DOMAIN AdminRows :
        /\ AdminRows[i]["username"] = username
        /\ AdminRows[i]["password_hash"] = HashSync(password)

\* C11: a login succeeds exactly when an account with the username exists and
\* the password matches its stored hash; a failed login hands out no token,
\* and its message is the one every other failing login gets at that moment,
\* unknown username and wrong password alike.
C11_LoginUniform ==
    [][\A u \in Usernames, p \in Passwords :
          SignIn(u, p)
            => /\ (last'.status = 200) <=> CredentialsMatch(u, p)
               /\ last'.status = 200
                    => held'.kind = "jwt" /\ held'.username = u /\ last'.id = held'.id
               /\ last'.status # 200
                    => /\ held' = held
                       /\ last'.id = NoToken.id
                       /\ last'.user = NoSession
                       /\ \A u2 \in Usernames, p2 \in Passwords :
                             ~CredentialsMatch(u2, p2)
                                => LoginResult(u2, p2).error = last'.error
      ]_vars

\* C11, its case: a login failed while one username is unknown and the other
\* is known
C11_Witness ==
    /\ last.op = "login"
    /\ last.status = 401
    /\ last.error = LoginError
    /\ \E u \in Usernames : \A i \in DOMAIN AdminRows : AdminRows[i]["username"] # u
    /\ \E u \in Usernames : \E i \in DOMAIN AdminRows : AdminRows[i]["username"] = u

\* C12: createAdminUser for a username that some account already has answers
\* 'Username already exists' and leaves the database as it was; for any other
\* username it adds exactly one account, with that username and, as its
\* credential, the hash of the password and not the password.
C12_CreateAccount ==
    [][\A u \in Usernames :
          CreateAdminUser(u, "pw")
            => IF \E i \in DOMAIN AdminRows : AdminRows[i]["username"] = u
               THEN /\ last'.status = 409
                    /\ last'.error = "Username already exists"
                    /\ db' = db
               ELSE /\ "admin_users" \in DOMAIN db'
                    /\ \E i \in DOMAIN db'["admin_users"].rows \ DOMAIN AdminRows :
                          /\ db' = [db EXCEPT !["admin_users"].rows =
                                       Put(AdminRows, i,
                                           [username |-> u,
                                            password_hash |-> HashSync("pw")]),
                                     !["admin_users"].seq = i]
                          /\ HashSync("pw") # "pw"
      ]_vars

\* C13: no result of login, createAdminUser, list or get-by-id on the
\* accounts table carries the password_hash field of an account.
C13_CredentialNotReturned ==
    (\/ last.op \in {"login", "createAdminUser"}
     \/ last.op \in {"list", "get"} /\ FoldCase(last.table) = "admin_users")
      => /\ \A i \in DOMAIN last.data : "password_hash" \notin DOMAIN last.data[i].fields
         /\ "password_hash" \notin DOMAIN last.user

----------------------------------------------------------------------------
(* Identifiers *)

\* the request was turned away by validation: nothing ran, nothing changed
RejectedUnrun == last'.status = 400 /\ last'.stmts = {} /\ db' = db

\* C14: an authenticated list, get-by-id, insert, update or delete whose table
\* name, or one of whose body field names, does not match the identifier
\* pattern is rejected before any statement is built: no statement runs and
\* the database is as it was.
C14_IdentifiersValidated ==
    [][\A h \in DataHeaders : \A t \in IdentifierNames :
          AuthenticateRequest(h).success
            => /\ (/\ ~IsIdentifier(t)
                   /\ \/ \E pg \in Pages : RestList(h, t, pg[1], pg[2])
                      \/ \E data \in IdentifierInserts : RestCreate(h, t, data)
                      \/ \E id \in 1 .. MaxId :
                            \/ RestGet(h, t, id)
                            \/ RestDelete(h, t, id)
                            \/ \E data \in IdentifierUpdates : RestUpdate(h, t, id, data))
                    => RejectedUnrun
               /\ \A data \in IdentifierInserts :
                     (/\ \E c \in DOMAIN WithoutId(data) : ~IsIdentifier(c)
                      /\ RestCreate(h, t, data))
                       => RejectedUnrun
               /\ \A data \in IdentifierUpdates : \A id \in 1 .. MaxId :
                     (/\ \E c \in DOMAIN WithoutId(data) : ~IsIdentifier(c)
                      /\ RestUpdate(h, t, id, data))
                       => RejectedUnrun
      ]_vars

\* C15: an authenticated create-table request builds and runs its CREATE
\* TABLE only when the table name and every column name match the identifier
\* pattern; otherwise it is rejected and no table is created.
C15_CreateTableValidated ==
    [][\A h \in DataHeaders : \A n \in CreateNames : \A c \in IdentifierColumnLists :
          (/\ AuthenticateRequest(h).success
           /\ TablesCreate(h, n, c)
           /\ ~IsIdentifier(n) \/ \E i \in DOMAIN c : ~IsIdentifier(c[i].name))
            => /\ last'.status = 400
               /\ "CREATE" \notin last'.stmts
               /\ db' = db
      ]_vars

----------------------------------------------------------------------------
(* The signing secret *)

\* C16: a service started without a configured signing secret issues no
\* token and accepts no token.
C16_NoSecretNoTokens ==
    EnvJwtSecret = NULL
      => /\ held = NoToken
         /\ ~(last.op = "login" /\ last.status = 200)
         /\ ~(last.op \in GatedOps \cup {"verify"} /\ last.status # 401)

----------------------------------------------------------------------------
(* The record operations *)

RecordOps == {"list", "get", "create", "update", "delete"}

\* the name of the request resolves to no table of the catalog
NoSuchTable(r) == r.table # NoTable /\ FoldCase(r.table) \notin DOMAIN db

Before(i) == Cardinality({j \in DOMAIN AdminRows : j < i})

\* C18: a list response for a table of total rows, asked with limit L and
\* offset O (100 and 0 for the parameters the URL does not carry) has the
\* pagination {limit: L, offset: O, total, hasMore} with hasMore = (O + L <
\* total), and its data are the rows at positions O .. O+L-1 of the table, at
\* most L of them.
C18_Pagination ==
    [][\A h \in DataHeaders : \A pg \in PageQueries :
          (RestList(h, "admin_users", pg[1], pg[2]) /\ last'.status = 200)
            => LET L == IF pg[1] = Absent THEN 100 ELSE pg[1][1]
                   O == IF pg[2] = Absent THEN 0 ELSE pg[2][1]
                   total == Cardinality(DOMAIN AdminRows)
                   data == last'.data
               IN  /\ last'.page.limit = L
                   /\ last'.page.offset = O
                   /\ last'.page.total = total
                   /\ last'.page.hasMore = (O + L < total)
                   /\ Len(data) <= L
                   /\ \A i \in DOMAIN AdminRows :
                         (O <= Before(i) /\ Before(i) <= O + L - 1)
                           <=> \E k \in 1 .. Len(data) :
                                  /\ k = Before(i) - O + 1
                                  /\ data[k] = Row(i, AdminRows[i])
                   /\ \A k \in 1 .. Len(data) : data[k].id \in DOMAIN AdminRows
      ]_vars

\* C18, its case: a page of one row out of two, with one more to come
C18_Witness ==
    /\ last.op = "list"
    /\ last.status = 200
    /\ last.page = [limit |-> 1, offset |-> 0, total |-> 2, hasMore |-> TRUE]
    /\ Len(last.data) = 1

\* the fields of a body other than the identity
Supplied(data) == {c \in DOMAIN data : c \notin {"id", "ID"}}

\* C19: an insert ignores the id its body carries: the record gets the id the
\* storage engine assigns, which no record of the table has, and a get-by-id
\* of that id right afterwards finds a record equal to the body on every
\* other field.
C19_InsertAssignsIdentity ==
    [][\A h \in DataHeaders : \A data \in IdentityInserts :
          (RestCreate(h, "admin_users", data) /\ last'.status = 201)
            => /\ last'.id \notin DOMAIN AdminRows
               /\ last'.id = NextRowId(db["admin_users"])
               /\ last'.id \in DOMAIN db'["admin_users"].rows
               /\ \A c \in Supplied(data) :
                     db'["admin_users"].rows[last'.id][c] = data[c]
               /\ last'.data = <<Row(last'.id, db'["admin_users"].rows[last'.id])>>
      ]_vars

\* C20: an update of an existing record returns the record under the id of
\* the request with the new values, whatever id its body carries; the ids of
\* the table stay the same and no other row changes; an update of an id
\* without a row is answered 'Record not found' and creates nothing.
C20_UpdateKeepsIdentity ==
    [][\A h \in DataHeaders : \A id \in 1 .. MaxId : \A data \in IdentityUpdates :
          (/\ AuthenticateRequest(h).success
           /\ RestUpdate(h, "admin_users", id, data))
            => IF id \in DOMAIN AdminRows
               THEN last'.status = 200
                      => /\ last'.data[1].id = id
                         /\ DOMAIN db'["admin_users"].rows = DOMAIN AdminRows
                         /\ \A i \in DOMAIN AdminRows \ {id} :
                               db'["admin_users"].rows[i] = AdminRows[i]
                         /\ \A c \in Supplied(data) :
                               db'["admin_users"].rows[id][c] = data[c]
               ELSE /\ last'.status = 404
                    /\ last'.error = "Record not found"
                    /\ db' = db
      ]_vars

----------------------------------------------------------------------------
(* Deleting twice *)

\* a record the protection policy lets go: any record of another table, and
\* on admin_users one not named 'admin' while another account remains
Unprotected(d, tableName, id) ==
    \/ tableName # "admin_users"
    \/ /\ d["admin_users"].rows[id]["username"] # "admin"
       /\ Cardinality(DOMAIN d["admin_users"].rows) > 1

\* C21: a delete of an id that has no row answers 404 'Record not found' and
\* leaves the database as it was; a delete of an existing unprotected record
\* answers 200 and removes exactly that row, so that the id has no row
\* afterwards: a get by that id then answers 404 'Record not found', and so
\* does a second delete.
C21_DeleteIdempotent ==
    [][\A h \in DataHeaders : \A t \in {"admin_users", "ADMIN_USERS"} :
         \A id \in 1 .. MaxId :
           /\ (AuthenticateRequest(h).success /\ RestDelete(h, t, id)) =>
                LET rows == db[TableOf(db, t)].rows
                IN  IF id \notin DOMAIN rows
                    THEN /\ last'.status = 404
                         /\ last'.error = "Record not found"
                         /\ db' = db
                    ELSE Unprotected(db, t, id) =>
                         /\ last'.status = 200
                         /\ db' = [db EXCEPT ![TableOf(db, t)].rows = Drop(rows, id)]
           /\ (AuthenticateRequest(h).success /\ RestGet(h, t, id)
                 /\ id \notin DOMAIN db[TableOf(db, t)].rows) =>
                /\ last'.status = 404
                /\ last'.error = "Record not found"
                /\ last'.data = <<>>
      ]_vars

\* a second delete has answered not-found: the id was handed out once, its
\* row is gone, and nothing was refused
C21_Witness ==
    /\ last.op = "delete"
    /\ last.status = 404
    /\ last.error = "Record not found"
    /\ last.log = NoLog
    /\ last.id \in 1 .. MaxId
    /\ last.id \notin DOMAIN AdminRows
    /\ "admin_users" \in DOMAIN db
    /\ db["admin_users"].seq >= last.id

----------------------------------------------------------------------------
(* The client *)

ClientOps == {"execute", "insert", "update", "delete", "getById", "sql"}

C23_WritesStripId ==
    /\ (client.pc = "sent" /\ client.op \in {"insert", "update"})
          => "id" \notin DOMAIN client.body
    /\ (client.pc = "idle" /\ client.op \in {"insert", "update"}
          /\ last.op \in {"create", "update"} /\ Ok(last))
          => client.result = Result(Value(last.data[1]), NULL)


\* C24: the token of the client.  A successful sign-in leaves the client with
\* the token that sign-in returned; a failed one leaves it with what it had
\* (nothing, on a client that had no token); sign-out leaves it with nothing;
\* nothing else changes it.  Every request the client sends carries
\* "Authorization: Bearer <token>" with the token it holds at that moment, and
\* no Authorization header when it holds none; the server receives the header
\* as sent.
C24_TokenLifecycle ==
    [][/\ \A p \in Passwords :
             SignIn("admin", p) =>
                IF LoginResult("admin", p).success
                THEN /\ last'.status = 200
                     /\ held' = LoginResult("admin", p).token
                     /\ held'.kind = "jwt"
                ELSE held' = held
       /\ SignOut => held' = NoToken
       /\ (held' # held) => last'.op \in {"login", "logout"}
       /\ (client.pc = "idle" /\ client'.pc = "sent") =>
             /\ held' = held
             /\ IF held = NoToken
                THEN client'.header = NoHeader
                ELSE /\ client'.header.present
                     /\ client'.header.prefix = "Bearer "
                     /\ client'.header.rest = held
       /\ (client.pc = "sent" /\ client' = client /\ last.op = "none"
             /\ last'.op # "none") => last'.header = client.header
      ]_vars

\* a request is in flight with the token of an earlier sign-in, and the
\* server has received it with that token
C24_Witness ==
    /\ client.pc = "sent"
    /\ held # NoToken
    /\ client.header = Bearer(held)
    /\ last.op \in {"list", "create", "update", "delete", "get"}
    /\ last.header = Bearer(held)
    /\ last.status # 401

----------------------------------------------------------------------------
(* Refused deletes *)

\* C25: the protection check comes before the DELETE.  Whenever
\* deleteFromTable('admin_users', id) refuses, for the main admin or for the
\* last account, no DELETE statement has run, no row is removed, and every
\* table is as it was before the call.
C25_RefusedDeleteNoOp ==
    [][\A h \in DataHeaders : \A id \in 1 .. MaxId :
          (/\ AuthenticateRequest(h).success
           /\ RestDelete(h, "admin_users", id)
           /\ last'.log \in {MainAdminError, LastAdminError})
            => /\ db' = db
               /\ "DELETE" \notin last'.stmts
               /\ id \in DOMAIN db'["admin_users"].rows
      ]_vars

\* the delete of the only account left was refused, and the account is there
C25_Witness ==
    /\ DeleteRan(last)
    /\ last.table = "admin_users"
    /\ last.log = LastAdminError
    /\ DOMAIN AdminRows = {last.id}

----------------------------------------------------------------------------
(* Two deletes at once *)

\* C26: the three statements of deleteFromTable on admin_users (read the row,
\* count the accounts, delete) are not one atomic step.  A call that counted
\* more than one account runs its DELETE whatever the count has become since:
\* the row it is about, if still there, is removed and the call succeeds.  So
\* two calls on the two accounts of a table of two, neither named 'admin',
\* can each count two and then both delete, which leaves no account.
C26_DeleteNotAtomic ==
    [][\A p \in Processes :
          (/\ calls[p].op = "delete"
           /\ calls[p].pc = "counted"
           /\ calls'[p].pc = "done"
           /\ calls[p].id \in DOMAIN AdminRows)
            => /\ calls'[p].result
               /\ db' = [db EXCEPT !["admin_users"].rows = Drop(AdminRows, calls[p].id)]
      ]_vars

\* both calls counted two accounts, both succeeded, and no account is left
C26_Witness ==
    /\ DOMAIN AdminRows = {}
    /\ "admin_users" \in DOMAIN db
    /\ \A p \in Processes :
          /\ calls[p].op = "delete"
          /\ calls[p].pc = "done"
          /\ calls[p].result
          /\ calls[p].count = 2
          /\ calls[p].username # "admin"
    /\ calls[1].id # calls[2].id

----------------------------------------------------------------------------
(* Startup recovery *)

\* the rows of admin_users in d that carry the username u
Named(d, u) ==
    {i \in DOMAIN AdminRowsOf(d) :
        "username" \in DOMAIN AdminRowsOf(d)[i] /\ AdminRowsOf(d)[i]["username"] = u}

\* C27: after initialization both reserved tables exist and admin_users
\* holds exactly one row with the username 'admin'.  ensureMainAdminExists
\* inserts that row, and returns true, only when no row is named 'admin';
\* otherwise it returns false and changes nothing.  Initialization never adds
\* a second 'admin' row and never alters an account that exists.
C27_StartupRecovery ==
    [][Initialize =>
          /\ {"admin_users", "app_users"} \subseteq DOMAIN db'
          /\ Cardinality(Named(db', "admin")) = 1
          /\ (last'.status = 1) <=> (Named(db, "admin") = {})
          /\ (Named(db, "admin") # {}) => AdminRowsOf(db') = AdminRowsOf(db)
          /\ \A i \in DOMAIN AdminRowsOf(db) :
                /\ i \in DOMAIN AdminRowsOf(db')
                /\ AdminRowsOf(db')[i] = AdminRowsOf(db)[i]
      ]_vars

----------------------------------------------------------------------------
(* The protections under every spelling *)

\* C28: the protections hold under every spelling of a name that the engine
\* resolves to a reserved table.  A delete of the 'admin' row or of the last
\* account is refused and changes nothing, and a drop of the table is
\* answered 403 and changes nothing, whether the request says 'admin_users'
\* or 'ADMIN_USERS'.
C28_ProtectionsAnySpelling ==
    [][\A h \in DataHeaders : \A t \in {"admin_users", "ADMIN_USERS"} :
          /\ \A id \in 1 .. MaxId :
                (/\ AuthenticateRequest(h).success
                 /\ AdminUsersReadable(db)
                 /\ id \in DOMAIN AdminRows
                 /\ \/ AdminRows[id]["username"] = "admin"
                    \/ Cardinality(DOMAIN AdminRows) = 1
                 /\ RestDelete(h, t, id))
                  => /\ db' = db
                     /\ last'.status # 200
          /\ (AuthenticateRequest(h).success /\ TableDrop(h, t))
                => /\ db' = db
                   /\ last'.status = 403
      ]_vars

----------------------------------------------------------------------------
(* Usernames *)

\* C29: no two rows of admin_users carry the same username, in any state and
\* whatever wrote the rows: createAdminUser, the generic insert and update,
\* the recovery at startup, or two createAdminUser calls for one username
\* running at once.
C29_UsernamesUnique ==
    \A u \in Usernames \cup {"carol"} : Cardinality(Named(db, u)) <= 1

----------------------------------------------------------------------------
(* The query builder *)

\* C30: the builder sends nothing until execute(): a call of select(),
\* limit() or offset() leaves the client without a new request.  The one
\* request of execute() carries the limit and the offset last set: for every
\* n >= 0 handed to limit(n) or offset(n) the server applies n, and it applies
\* its defaults, 100 and 0, only when limit() or offset() was never called.
C30_BuilderSendsWhatWasSet ==
    [][/\ (builder' # builder) => (client' = client /\ last' = last)
       /\ (client.pc = "idle" /\ client'.pc = "sent" /\ client'.op = "execute") =>
             /\ client'.table = builder.table
             /\ ParseLimit(client'.query[1]) =
                   (IF builder.limitValue = Unset THEN 100 ELSE builder.limitValue[1])
             /\ ParseOffset(client'.query[2]) =
                   (IF builder.offsetValue = Unset THEN 0 ELSE builder.offsetValue[1])
       /\ (client.pc = "sent" /\ client.op = "execute" /\ client' = client
             /\ last.op = "none" /\ last'.op = "list" /\ last'.status = 200) =>
             /\ last'.page.limit = ParseLimit(client.query[1])
             /\ last'.page.offset = ParseOffset(client.query[2])
      ]_vars

====
